---- MODULE Spec2Model ----
(***************************************************************************)
(* The token ledger and YooKassa payment reconciliation of bot.py          *)
(* (class YooKassaBot).  One sqlite3 connection (self.conn) is shared by   *)
(* every coroutine: `conn` is the connection's view (committed rows plus   *)
(* the open transaction), `disk` is what has been committed.  Coroutines   *)
(* interleave only at their await points; every action below is the code   *)
(* between two awaits.                                                     *)
(***************************************************************************)
EXTENDS Integers, Sequences, FiniteSets, TLC

\* ---------------------------------------------------------------- bounds
MaxOrders == 2        \* order ids (uuid4 values) that create_yookassa_payment may draw
MaxMsgs == 11         \* text messages handled in a run
MaxStoreErrs == 1     \* sqlite3 calls that raise in a run

\* ------------------------------------------------------ program constants
COST_PER_REQUEST == 10
DefaultTokens == 100

token_packs ==
  [small   |-> [tokens |-> 1000,  price |-> 100],
   medium  |-> [tokens |-> 5000,  price |-> 450],
   large   |-> [tokens |-> 15000, price |-> 1200],
   premium |-> [tokens |-> 50000, price |-> 3500]]

\* ----------------------------------------------------------- input sets
Users == {"u1", "u2"}
Buyers == {"u1"}                          \* the users who press a pack's button
Handlers == {1, 2}                        \* handle_message coroutines in flight
OrderIds == 1 .. MaxOrders
PackInputs == {"small", "bogus"}          \* callback data create_payment_<pack_id>
ProviderStatus == {"pending", "succeeded", "canceled"}

VARIABLES
  conn,             \* self.conn: tables users, orders, payments as the connection sees them
  disk,             \* the committed tables (tokens.db)
  charge,           \* the provider's status of each charge ("none": not created)
  age,              \* of each order's `created`: 0 within a day, 1 within 7 days, 2 older
  nextOrder,        \* order ids drawn so far
  handlers,         \* handle_message coroutines: where each is suspended
  sweep,            \* the check_pending_payments job: position, pending_orders still to
                    \* visit, the order of the current iteration; of this pass: the orders
                    \* listed, seen, and whose iteration raised
  ollama_available, \* self.ollama_available
  spent,            \* per user: requests whose debit took effect and was not refunded
  everPaid,         \* orders whose status has been set to 'paid'
  issued,           \* the snapshot each order was inserted with (kept after a purge),
                    \* and whether its 'cancel order' button has been pressed
  msgCount,         \* text messages handled so far
  storeErrs,        \* sqlite3 calls that raised so far
  last              \* the operation that made the last step, and what it saw

vars == <<conn, disk, charge, age, nextOrder, handlers, sweep, ollama_available,
          spent, everPaid, issued, msgCount, storeErrs, last>>

\* ------------------------------------------------------------- the store
EmptyFn == [x \in {} |-> 0]

\* `last`: the provider query a handler or the sweep just made (which order, and
\* the answer: a status, or "raise"), or the create_yookassa_payment that just
\* returned without an order ("no_pack", or "raise" of Payment.create), or the
\* handle_message that just returned on the balance check ("rejected", and
\* whose message it was); NoOp after any other step.  For a check, `result`
\* is what the handler tells the user; `notify` is "failed" when the
\* send_message of process_successful_payment raised.
NoOp == [op |-> "", order |-> 0, user |-> "", answer |-> "", result |-> "", notify |-> ""]

Op(op, o, u, answer, pre) ==
  IF \/ op \in {"check", "sweep_order"}
     \/ op = "create" /\ answer \in {"no_pack", "raise"}
  THEN [NoOp EXCEPT !.op = op, !.order = o, !.answer = answer]
  ELSE IF op = "message" /\ answer = "rejected"
  THEN [NoOp EXCEPT !.op = op, !.user = u, !.answer = answer]
  ELSE NoOp

\* The statements the code executes, as data: Exec is what each does to the
\* connection's view.  An UPDATE or DELETE whose WHERE matches no row changes
\* nothing and raises nothing.
InsertUser(u) == [sql |-> "insert_user", user |-> u, order |-> 0, arg |-> 0, arg2 |-> 0]
UpdateTokens(u, dt) == [sql |-> "update_users", user |-> u, order |-> 0, arg |-> dt, arg2 |-> 0]
Credit(o, u, dt, ds) == [sql |-> "update_users", user |-> u, order |-> o, arg |-> dt, arg2 |-> ds]
InsertOrder(o, u, p) == [sql |-> "insert_order", user |-> u, order |-> o, arg |-> p, arg2 |-> 0]
InsertPayment(o, u, p) == [sql |-> "insert_payment", user |-> u, order |-> o, arg |-> p, arg2 |-> 0]
UpdateOrder(o, s) == [sql |-> "update_order", user |-> "", order |-> o, arg |-> s, arg2 |-> 0]
UpdatePayment(o, s) == [sql |-> "update_payment", user |-> "", order |-> o, arg |-> s, arg2 |-> 0]
DeleteOrders(os) == [sql |-> "delete_orders", user |-> "", order |-> 0, arg |-> os, arg2 |-> 0]

Extend(f, k, v) == [x \in DOMAIN f \cup {k} |-> IF x = k THEN v ELSE f[x]]
Remove(f, ks) == [x \in DOMAIN f \ ks |-> f[x]]

\* C19's mutant of InsertOrIgnore: INSERT OR REPLACE.
InsertOrReplace(users, u) ==
  Extend(users, u, [tokens |-> DefaultTokens, total_spent |-> 0])

\* INSERT OR IGNORE INTO users (user_id, tokens) VALUES (?, 100): user_id is
\* the primary key, total_spent defaults to 0.
InsertOrIgnore(users, u) ==
  IF u \in DOMAIN users THEN users
  ELSE Extend(users, u, [tokens |-> DefaultTokens, total_spent |-> 0])

Exec(c, s) ==
  CASE s.sql = "insert_user" ->
         [c EXCEPT !.users = InsertOrIgnore(@, s.user)]
    [] s.sql = "update_users" ->
         IF s.user \in DOMAIN c.users
         THEN [c EXCEPT !.users[s.user] =
                 [tokens |-> @.tokens + s.arg, total_spent |-> @.total_spent + s.arg2],
                        !.credited = IF s.order = 0 THEN @
                                     ELSE [@ EXCEPT ![s.order] = @ + 1]]
         ELSE c
    [] s.sql = "insert_order" ->
         [c EXCEPT !.orders = Extend(@, s.order,
            [user_id |-> s.user, pack_id |-> s.arg,
             tokens |-> token_packs[s.arg].tokens, price |-> token_packs[s.arg].price,
             yookassa_payment_id |-> s.order, status |-> "created"])]
    [] s.sql = "insert_payment" ->
         [c EXCEPT !.payments = Extend(@, s.order,
            [user_id |-> s.user, amount |-> token_packs[s.arg].price,
             tokens_added |-> token_packs[s.arg].tokens, status |-> "pending"])]
    [] s.sql = "update_order" ->
         IF s.order \in DOMAIN c.orders
         THEN [c EXCEPT !.orders[s.order].status = s.arg] ELSE c
    [] s.sql = "update_payment" ->
         IF s.order \in DOMAIN c.payments
         THEN [c EXCEPT !.payments[s.order].status = s.arg] ELSE c
    [] s.sql = "delete_orders" ->
         [c EXCEPT !.orders = Remove(@, s.arg)]

RECURSIVE Run(_, _, _)
Run(c, stmts, n) ==
  IF n = 0 THEN c ELSE Exec(Run(c, stmts, n - 1), stmts[n])

\* A transaction of the code: cursor.execute for each statement, then
\* self.conn.commit().  k = 0: every call returns.  k in 1..Len(stmts): the
\* k-th execute raises, Len(stmts)+1: the commit raises.  Nothing in bot.py
\* rolls back, so the statements executed before the raise stay in the
\* connection's open transaction.
Executed(stmts, k) == IF k = 0 THEN Len(stmts) ELSE k - 1

Txn(c, d, stmts, k) ==
  LET c2 == Run(c, stmts, Executed(stmts, k))
  IN [conn |-> c2, disk |-> IF k = 0 THEN c2 ELSE d]

Fails(stmts) == IF storeErrs < MaxStoreErrs THEN 0 .. Len(stmts) + 1 ELSE {0}

Raised(k) == IF k = 0 THEN 0 ELSE 1

EmptyStore ==
  [users |-> EmptyFn, orders |-> EmptyFn, payments |-> EmptyFn,
   credited |-> [o \in OrderIds |-> 0]]

\* ------------------------------------------------------------------ Init
IdleHandler == [pc |-> "idle", user |-> "", debited |-> FALSE, answered |-> FALSE]
IdleSweep ==
  [pc |-> "idle", pending |-> <<>>, order |-> 0, listed |-> {}, seen |-> {}, raised |-> {}]

Init ==
  /\ conn = EmptyStore
  /\ disk = EmptyStore
  /\ charge = [o \in OrderIds |-> "none"]
  /\ age = [o \in OrderIds |-> 0]
  /\ nextOrder = 0
  /\ handlers = [h \in Handlers |-> IdleHandler]
  /\ sweep = IdleSweep
  /\ ollama_available \in BOOLEAN
  /\ spent = [u \in Users |-> 0]
  /\ everPaid = {}
  /\ issued = EmptyFn
  /\ msgCount = 0
  /\ storeErrs = 0
  /\ last = NoOp

\* The event loop is free for a handler when the sweep job is not running
\* between two of its awaits.
LoopFree == sweep.pc # "loop"

\* ------------------------------------------------------------ /start
\* start -> register_user: INSERT OR IGNORE, commit.
Start(u, k) ==
  /\ LoopFree
  /\ LET t == Txn(conn, disk, <<InsertUser(u)>>, k)
     IN /\ conn' = t.conn
        /\ disk' = t.disk
  /\ storeErrs' = storeErrs + Raised(k)
  /\ last' = Op("start", 0, u, "", "")
  /\ UNCHANGED <<charge, age, nextOrder, handlers, sweep, ollama_available,
                 spent, everPaid, issued, msgCount>>

\* -------------------------------------------------------- handle_message
\* C15's mutant of Rejected: only an overdrawn balance is refused.
RejectedBelowZero(c, u) == u \notin DOMAIN c.users \/ c.users[u].tokens < 0

\* if not user_info or user_info['tokens'] < self.COST_PER_REQUEST
Rejected(c, u) == u \notin DOMAIN c.users \/ c.users[u].tokens < COST_PER_REQUEST

\* A free slot for a new coroutine: the first idle one.
FreeSlot(h) ==
  /\ handlers[h].pc = "idle"
  /\ \A g \in Handlers : handlers[g].pc = "idle" => h <= g

\* From the top of handle_message to `await chat.send_action`: the balance
\* check, and the two early returns (each only replies).
MsgStart(h, u, bound) ==
  /\ LoopFree
  /\ FreeSlot(h)
  /\ msgCount < bound
  /\ msgCount' = msgCount + 1
  /\ handlers' = IF Rejected(conn, u) \/ ~ollama_available THEN handlers
                 ELSE [handlers EXCEPT ![h] = [pc |-> "typing", user |-> u,
                                               debited |-> FALSE, answered |-> FALSE]]
  /\ last' = Op("message", 0, u, IF Rejected(conn, u) THEN "rejected" ELSE "", "")
  /\ UNCHANGED <<conn, disk, charge, age, nextOrder, sweep, ollama_available,
                 spent, everPaid, issued, storeErrs>>

\* send_action raised: it is awaited before the try block, so the handler ends.
MsgAbort(h) ==
  /\ LoopFree
  /\ handlers[h].pc = "typing"
  /\ handlers' = [handlers EXCEPT ![h] = IdleHandler]
  /\ last' = Op("message", 0, "", "", "")
  /\ UNCHANGED <<conn, disk, charge, age, nextOrder, sweep, ollama_available,
                 spent, everPaid, issued, msgCount, storeErrs>>

DebitStmts(u) == <<UpdateTokens(u, 0 - COST_PER_REQUEST)>>
RefundStmts(u) == <<UpdateTokens(u, COST_PER_REQUEST)>>

\* Whether the UPDATE of a one-statement transaction was executed on a row.
Applied(c, u, k) == u \in DOMAIN c.users /\ Executed(<<1>>, k) = 1

\* From send_action's return to `await reply_text`: the debit and its commit,
\* the ollama.generate attempts (llm: one of them answered; their exceptions
\* are caught in the loop over the models) and, if the debit or its commit
\* raised, the except branch: the refund and its commit.
MsgDebit(h, k, k2, llm) ==
  /\ LoopFree
  /\ handlers[h].pc = "typing"
  /\ LET u == handlers[h].user
         t == Txn(conn, disk, DebitStmts(u), k)
         t2 == Txn(t.conn, t.disk, RefundStmts(u), k2)
         debited == Applied(conn, u, k)
         refunded == Applied(t.conn, u, k2)
     IN IF k = 0
        THEN /\ k2 = 0
             /\ conn' = t.conn
             /\ disk' = t.disk
             /\ handlers' = [handlers EXCEPT ![h] = [pc |-> "reply", user |-> u,
                                                     debited |-> debited, answered |-> llm]]
             /\ spent' = [spent EXCEPT ![u] = IF debited THEN @ + 1 ELSE @]
        ELSE /\ llm = FALSE
             /\ conn' = t2.conn
             /\ disk' = t2.disk
             /\ handlers' = [handlers EXCEPT ![h] = IdleHandler]
             /\ spent' = [spent EXCEPT ![u] = IF debited /\ ~refunded THEN @ + 1 ELSE @]
  /\ storeErrs' = storeErrs + Raised(k) + Raised(k2)
  /\ last' = Op("message", 0, "", "", "")
  /\ UNCHANGED <<charge, age, nextOrder, sweep, ollama_available,
                 everPaid, issued, msgCount>>

\* The await of reply_text returns (sent) or raises: the except branch then
\* refunds and commits.
MsgReply(h, sent, k) ==
  /\ LoopFree
  /\ handlers[h].pc = "reply"
  /\ LET u == handlers[h].user
         t == Txn(conn, disk, RefundStmts(u), k)
         refunded == Applied(conn, u, k)
     IN IF sent
        THEN /\ k = 0
             /\ UNCHANGED <<conn, disk, spent>>
        ELSE /\ conn' = t.conn
             /\ disk' = t.disk
             /\ spent' = [spent EXCEPT ![u] =
                            IF handlers[h].debited /\ refunded THEN @ - 1 ELSE @]
  /\ handlers' = [handlers EXCEPT ![h] = IdleHandler]
  /\ storeErrs' = storeErrs + Raised(k)
  /\ last' = Op("message", 0, "", "", "")
  /\ UNCHANGED <<charge, age, nextOrder, sweep, ollama_available,
                 everPaid, issued, msgCount>>

\* ------------------------------------------- create_yookassa_payment
\* The order id is a fresh uuid4; the provider's charge id (payment.id) is
\* modelled by the same number.  out = "raise": Payment.create raised.
CreateStmts(o, u, p) == <<InsertOrder(o, u, p), InsertPayment(o, u, p)>>

\* C11's mutant of CreateFail: the order is inserted before Payment.create.
CreateFailAfterInsert(out, k) == IF out = "raise" THEN 2 ELSE k

\* Where the try block is left: Payment.create is called before the first
\* execute, so when it raises no statement has run (as when the first
\* execute raises).
CreateFail(out, k) == IF out = "raise" THEN 1 ELSE k

CreatePayment(u, p, out, k) ==
  /\ LoopFree
  /\ IF p \notin DOMAIN token_packs
     THEN /\ out = "ok" /\ k = 0
          /\ last' = Op("create", 0, u, "no_pack", "")
          /\ UNCHANGED <<conn, disk, charge, nextOrder, issued, storeErrs>>
     ELSE /\ nextOrder < MaxOrders
          /\ nextOrder' = nextOrder + 1
          /\ (out = "raise" => k = 0)
          /\ LET o == nextOrder + 1
                 t == Txn(conn, disk, CreateStmts(o, u, p), CreateFail(out, k))
             IN /\ charge' = IF out = "raise" THEN charge
                              ELSE [charge EXCEPT ![o] = "pending"]
                /\ conn' = t.conn
                /\ disk' = t.disk
                /\ issued' = IF o \in DOMAIN t.conn.orders
                             THEN Extend(issued, o,
                                    [user_id |-> u, tokens |-> token_packs[p].tokens,
                                     price |-> token_packs[p].price,
                                     cancelled |-> FALSE])
                             ELSE issued
                /\ storeErrs' = storeErrs + Raised(k)
                /\ last' = Op("create", o, u, out, "")
  /\ UNCHANGED <<age, handlers, sweep, ollama_available, spent, everPaid, msgCount>>

\* ------------------------------------------- process_successful_payment
\* SELECT ... WHERE order_id = ? AND status != 'paid'
SettleGuard(c, o) == o \in DOMAIN c.orders /\ c.orders[o].status # "paid"

SettleStmts(c, o, payment_id) ==
  <<Credit(o, c.orders[o].user_id, c.orders[o].tokens, c.orders[o].price),
    UpdateOrder(o, "paid"),
    UpdatePayment(payment_id, "completed")>>

\* What a call does to the store, and whether it goes on to the await of
\* bot.send_message (only after the commit, and only if get_user_info finds
\* the user).
Settle(c, d, o, payment_id, k) ==
  IF ~SettleGuard(c, o)
  THEN [conn |-> c, disk |-> d, paid |-> FALSE, notify |-> FALSE]
  ELSE LET t == Txn(c, d, SettleStmts(c, o, payment_id), k)
       IN [conn |-> t.conn, disk |-> t.disk,
           paid |-> Executed(SettleStmts(c, o, payment_id), k) >= 2,
           notify |-> k = 0 /\ c.orders[o].user_id \in DOMAIN t.conn.users]

SettleFails(c, o) ==
  IF SettleGuard(c, o) THEN Fails(SettleStmts(c, o, o)) ELSE {0}

\* C20's mutant of AfterNotify: the exception of send_message leaves
\* process_successful_payment and is caught by the except of the loop body
\* (the job) or of check_payment_status.
AfterNotifyPropagates(sent) == IF sent THEN "returns" ELSE "raises"

\* How process_successful_payment ends after its commit: the notification is
\* in a try of its own whose except only logs.
AfterNotify(sent) == "returns"

\* ------------------------------------------------ check_payment_status
\* C10's mutant of CheckBranch: anything that is not a refusal settles.
CheckBranchSettlesPending(status) ==
  IF status \in {"succeeded", "pending"} THEN "settle" ELSE "rejected"

\* The branch taken on the provider's answer (payment.status).
CheckBranch(status) ==
  IF status = "succeeded" THEN "settle"
  ELSE IF status = "pending" THEN "wait"
  ELSE "rejected"

OrderStatus(c, o) == IF o \in DOMAIN c.orders THEN c.orders[o].status ELSE "absent"

\* What check_payment_status tells the user.
CheckResult(pre, answer, k, sent) ==
  IF pre = "absent" THEN "not_found"
  ELSE IF pre = "paid" THEN "already_paid"
  ELSE IF answer = "raise" THEN "error"
  ELSE IF CheckBranch(answer) = "settle"
  THEN IF k # 0 \/ AfterNotify(sent) = "raises" THEN "error" ELSE "success"
  ELSE IF CheckBranch(answer) = "wait" THEN "wait"
  ELSE "rejected"

\* exc: Payment.find_one raised; sent: the send_message of
\* process_successful_payment, if it gets there, returned.  The awaits that
\* follow the commit touch no state of the bot and are part of the step.
CheckPaymentStatus(o, exc, k, sent) ==
  /\ LoopFree
  /\ LET pre == OrderStatus(conn, o)
         answer == IF pre \in {"absent", "paid"} THEN ""
                   ELSE IF exc THEN "raise" ELSE charge[o]
         r == IF answer # "" /\ answer # "raise" /\ CheckBranch(answer) = "settle"
              THEN Settle(conn, disk, o, conn.orders[o].yookassa_payment_id, k)
              ELSE [conn |-> conn, disk |-> disk, paid |-> FALSE, notify |-> FALSE]
     IN /\ (pre \in {"absent", "paid"} => ~exc)
        /\ (answer \in {"", "raise"} \/ CheckBranch(answer) # "settle" => k = 0)
        /\ (~r.notify => sent)
        /\ conn' = r.conn
        /\ disk' = r.disk
        /\ everPaid' = IF r.paid THEN everPaid \cup {o} ELSE everPaid
        /\ last' = [Op("check", o, "", answer, pre) EXCEPT
                      !.result = CheckResult(pre, answer, k, sent),
                      !.notify = IF sent THEN "" ELSE "failed"]
  /\ storeErrs' = storeErrs + Raised(k)
  /\ UNCHANGED <<charge, age, nextOrder, handlers, sweep, ollama_available,
                 spent, issued, msgCount>>

\* ---------------------------------------------- check_pending_payments
\* The rows of a full scan of `orders` come back in rowid order, which is the
\* order of insertion.
RECURSIVE Ascending(_)
Ascending(S) ==
  IF S = {} THEN <<>>
  ELSE LET m == CHOOSE x \in S : \A y \in S : x <= y
       IN <<m>> \o Ascending(S \ {m})

\* SELECT order_id, yookassa_payment_id FROM orders WHERE status = 'created'
\* AND created within the last day.
Selected(c, a) == {o \in DOMAIN c.orders : c.orders[o].status = "created" /\ a[o] = 0}

SweepStart ==
  /\ sweep.pc = "idle"
  /\ sweep' = [pc |-> "loop", pending |-> Ascending(Selected(conn, age)), order |-> 0,
               listed |-> Selected(conn, age), seen |-> {}, raised |-> {}]
  /\ last' = Op("sweep_start", 0, "", "", "")
  /\ UNCHANGED <<conn, disk, charge, age, nextOrder, handlers, ollama_available,
                 spent, everPaid, issued, msgCount, storeErrs>>

SweepBranch(status) ==
  IF status = "succeeded" THEN "settle"
  ELSE IF status \in {"canceled", "failed"} THEN "fail"
  ELSE "none"

FailStmts(o, payment_id) == <<UpdateOrder(o, "failed"), UpdatePayment(payment_id, "failed")>>

\* C13's mutant of SweepRest: the try encloses the loop, an exception ends it.
SweepRestAborts(pending, raised) == IF raised THEN <<>> ELSE Tail(pending)

\* The orders left to the for loop after an iteration: the try/except is
\* inside the loop body, so the same whether the iteration raised or not.
SweepRest(pending, raised) == Tail(pending)

\* One iteration of the for loop; an exception of the iteration is logged and
\* the loop goes on.
SweepOrder(exc, k) ==
  /\ sweep.pc = "loop"
  /\ sweep.pending # <<>>
  /\ LET o == Head(sweep.pending)
         pre == OrderStatus(conn, o)
         answer == IF exc THEN "raise" ELSE charge[o]
         branch == IF exc THEN "none" ELSE SweepBranch(answer)
         r == IF branch = "settle" THEN Settle(conn, disk, o, o, k)
              ELSE IF branch = "fail"
              THEN LET t == Txn(conn, disk, FailStmts(o, o), k)
                   IN [conn |-> t.conn, disk |-> t.disk, paid |-> FALSE, notify |-> FALSE]
              ELSE [conn |-> conn, disk |-> disk, paid |-> FALSE, notify |-> FALSE]
     IN /\ k \in (IF branch = "settle" THEN SettleFails(conn, o)
                  ELSE IF branch = "fail" THEN Fails(FailStmts(o, o))
                  ELSE {0})
        /\ conn' = r.conn
        /\ disk' = r.disk
        /\ everPaid' = IF r.paid THEN everPaid \cup {o} ELSE everPaid
        /\ sweep' = [pc |-> IF r.notify THEN "notify" ELSE "loop",
                     pending |-> SweepRest(sweep.pending, exc \/ k # 0),
                     order |-> o,
                     listed |-> sweep.listed,
                     seen |-> sweep.seen \cup {o},
                     raised |-> IF exc \/ k # 0 THEN sweep.raised \cup {o}
                                ELSE sweep.raised]
        /\ last' = Op("sweep_order", o, "", answer, pre)
  /\ storeErrs' = storeErrs + Raised(k)
  /\ UNCHANGED <<charge, age, nextOrder, handlers, ollama_available,
                 spent, issued, msgCount>>

\* The await of bot.send_message inside process_successful_payment returns
\* (sent) or raises.
SweepNotified(sent) ==
  /\ sweep.pc = "notify"
  /\ sweep' = [sweep EXCEPT !.pc = "loop",
                            !.raised = IF AfterNotify(sent) = "raises"
                                       THEN @ \cup {sweep.order} ELSE @]
  /\ last' = IF sent THEN NoOp
             ELSE [NoOp EXCEPT !.op = "sweep_notified", !.order = sweep.order,
                               !.notify = "failed"]
  /\ UNCHANGED <<conn, disk, charge, age, nextOrder, handlers, ollama_available,
                 spent, everPaid, issued, msgCount, storeErrs>>

\* DELETE FROM orders WHERE status IN ('failed', 'canceled') AND created more
\* than 7 days ago; commit.
Purged(c, a) ==
  {o \in DOMAIN c.orders : c.orders[o].status \in {"failed", "canceled"} /\ a[o] = 2}

SweepPurge(k) ==
  /\ sweep.pc = "loop"
  /\ sweep.pending = <<>>
  /\ LET t == Txn(conn, disk, <<DeleteOrders(Purged(conn, age))>>, k)
     IN /\ conn' = t.conn
        /\ disk' = t.disk
  /\ sweep' = IdleSweep
  /\ storeErrs' = storeErrs + Raised(k)
  /\ last' = Op("sweep_purge", 0, "", "", "")
  /\ UNCHANGED <<charge, age, nextOrder, handlers, ollama_available,
                 spent, everPaid, issued, msgCount>>

\* ------------------------------------- button_handler, cancel_order_
\* C26's mutant of CancelStmts: the button makes the failed transition.
CancelStmtsFail(o) == FailStmts(o, o)

\* The statements the branch executes: none, it answers the callback and
\* edits the message.
CancelStmts(o) == <<>>

\* The button is on the message of an order that create_yookassa_payment
\* inserted.
CancelOrder(o) ==
  /\ LoopFree
  /\ o \in DOMAIN issued
  /\ conn' = Run(conn, CancelStmts(o), Len(CancelStmts(o)))
  /\ issued' = [issued EXCEPT ![o].cancelled = TRUE]
  /\ last' = Op("cancel", o, "", "", "")
  /\ UNCHANGED <<disk, charge, age, nextOrder, handlers, sweep, ollama_available,
                 spent, everPaid, msgCount, storeErrs>>

\* ------------------------------------------------------ the environment
\* The provider's status of a charge, as Payment.find_one reports it.
ProviderSet(o, s) ==
  /\ charge[o] # "none"
  /\ s # charge[o]
  /\ charge' = [charge EXCEPT ![o] = s]
  /\ last' = Op("provider", o, "", s, "")
  /\ UNCHANGED <<conn, disk, age, nextOrder, handlers, sweep, ollama_available,
                 spent, everPaid, issued, msgCount, storeErrs>>

\* Time passes: an order's `created` falls out of datetime('now', '-1 day'),
\* then out of datetime('now', '-7 days').
Age(o) ==
  /\ o \in DOMAIN conn.orders
  /\ age[o] < 2
  /\ \A e \in DOMAIN conn.orders : e < o => age[e] > age[o]
  /\ age' = [age EXCEPT ![o] = @ + 1]
  /\ last' = Op("time", o, "", "", "")
  /\ UNCHANGED <<conn, disk, charge, nextOrder, handlers, sweep, ollama_available,
                 spent, everPaid, issued, msgCount, storeErrs>>

\* The process is stopped (at any point: its coroutines and the open
\* transaction are gone) and started again.  __init__ connects to tokens.db
\* and calls init_db, which drops users, payments and orders, creates them
\* empty and commits; then check_ollama.  The provider keeps its charges.
Restart(avail) ==
  /\ conn' = EmptyStore
  /\ disk' = EmptyStore
  /\ handlers' = [h \in Handlers |-> IdleHandler]
  /\ sweep' = IdleSweep
  /\ ollama_available' = avail
  /\ spent' = [u \in Users |-> 0]
  /\ last' = Op("restart", 0, "", "", "")
  /\ UNCHANGED <<charge, age, nextOrder, everPaid, issued, msgCount, storeErrs>>

\* ------------------------------------------------- the specifications
StartStep == \E u \in Users : \E k \in Fails(<<InsertUser(u)>>) : Start(u, k)

\* The payment side: orders, the on-demand check, the periodic job, the
\* provider and the clock.
NextPay ==
  \/ StartStep
  \/ \E u \in Buyers, p \in PackInputs, out \in {"ok", "raise"} :
       \E k \in Fails(CreateStmts(0, u, "small")) : CreatePayment(u, p, out, k)
  \/ \E o \in OrderIds, exc \in BOOLEAN, sent \in BOOLEAN : \E k \in SettleFails(conn, o) :
       CheckPaymentStatus(o, exc, k, sent)
  \/ SweepStart
  \/ \E exc \in BOOLEAN : \E k \in 0 .. 4 : SweepOrder(exc, k)
  \/ \E sent \in BOOLEAN : SweepNotified(sent)
  \/ \E k \in Fails(<<DeleteOrders({})>>) : SweepPurge(k)
  \/ \E o \in OrderIds, s \in ProviderStatus : ProviderSet(o, s)
  \/ \E o \in OrderIds : Age(o)

\* The spending side: the text-message handlers of the registered users.
NextLedger ==
  \/ StartStep
  \/ \E h \in Handlers, u \in Users : MsgStart(h, u, MaxMsgs)
  \/ \E h \in Handlers : MsgAbort(h)
  \/ \E h \in Handlers, llm \in BOOLEAN :
       \E k \in Fails(<<1>>) : \E k2 \in (IF k # 0 /\ storeErrs + 1 < MaxStoreErrs
                                           THEN 0 .. 2 ELSE {0}) :
         MsgDebit(h, k, k2, llm)
  \/ \E h \in Handlers, sent \in BOOLEAN : \E k \in Fails(<<1>>) : MsgReply(h, sent, k)

Next == NextPay \/ NextLedger

\* The two sides meet only in users.tokens and in the shared connection's
\* commit, and StartStep commits in both: Spec explores the payment side with
\* the model of Ollama reachable, SpecLedger the spending side.
InitAvailable == Init /\ ollama_available

Spec == InitAvailable /\ [][NextPay]_vars

SpecLedger == Init /\ [][NextLedger]_vars

\* The spending side with the text messages handled one after the other (each
\* handler returns before the next update is taken).
NextSeq ==
  \/ StartStep
  \/ \E u \in Users : MsgStart(1, u, MaxMsgs)
  \/ MsgAbort(1)
  \/ \E llm \in BOOLEAN :
       \E k \in Fails(<<1>>) : \E k2 \in (IF k # 0 /\ storeErrs + 1 < MaxStoreErrs
                                           THEN 0 .. 2 ELSE {0}) :
         MsgDebit(1, k, k2, llm)
  \/ \E sent \in BOOLEAN : \E k \in Fails(<<1>>) : MsgReply(1, sent, k)

SpecSeq == Init /\ [][NextSeq]_vars

\* The payment side over several runs of the process on the same tokens.db,
\* check_ollama answering True in each as in InitAvailable.
RestartStep == \E avail \in {TRUE} : Restart(avail)

NextRuns == NextPay \/ RestartStep

SpecRuns == InitAvailable /\ [][NextRuns]_vars

\* The payment side with the job scheduled for ever: run_repeating(interval=30)
\* starts a pass again and again, each await of the job returns, the store
\* raises nothing and Payment.find_one always answers; time passes.  The
\* users' steps (/start, a pack's button, the check button) may happen or not.
\* A pass starts every 30 seconds and the windows of the job are 1 and 7
\* days: an order does not leave a window while it is 'created' and fresh
\* with a final answer of the provider that no pass has acted on yet.
AgeAfterPass(o) ==
  /\ ~(/\ OrderStatus(conn, o) = "created"
       /\ age[o] = 0
       /\ charge[o] \in {"succeeded", "canceled"})
  /\ Age(o)

NextLive ==
  \/ \E u \in Users : Start(u, 0)
  \/ \E u \in Buyers, p \in PackInputs, out \in {"ok", "raise"} : CreatePayment(u, p, out, 0)
  \/ \E o \in OrderIds, sent \in BOOLEAN : CheckPaymentStatus(o, FALSE, 0, sent)
  \/ SweepStart
  \/ SweepOrder(FALSE, 0)
  \/ \E sent \in BOOLEAN : SweepNotified(sent)
  \/ SweepPurge(0)
  \/ \E o \in OrderIds, s \in ProviderStatus : ProviderSet(o, s)
  \/ \E o \in OrderIds : AgeAfterPass(o)

JobFairness ==
  /\ WF_vars(SweepStart)
  /\ WF_vars(SweepOrder(FALSE, 0))
  /\ WF_vars(\E sent \in BOOLEAN : SweepNotified(sent))
  /\ WF_vars(SweepPurge(0))
  /\ WF_vars(\E o \in OrderIds : AgeAfterPass(o))

SpecLive == InitAvailable /\ [][NextLive]_vars /\ JobFairness

\* The payment side with the 'cancel order' button, no store call raising
\* and the provider always answering.
NextCancel ==
  \/ NextLive
  \/ \E o \in OrderIds : CancelOrder(o)

SpecCancel == InitAvailable /\ [][NextCancel]_vars

\* ------------------------------------------------------------ the claims
RECURSIVE Sum(_, _)
Sum(f, S) ==
  IF S = {} THEN 0
  ELSE LET x == CHOOSE y \in S : TRUE IN f[x] + Sum(f, S \ {x})

PaidOrders(c, u) ==
  {o \in DOMAIN c.orders : c.orders[o].status = "paid" /\ c.orders[o].user_id = u}

PaidTokens(c, u) == Sum([o \in DOMAIN c.orders |-> c.orders[o].tokens], PaidOrders(c, u))

EverPaidPrice(u) ==
  Sum([o \in DOMAIN issued |-> issued[o].price],
      {o \in everPaid : issued[o].user_id = u})

\* C1: every order whose status is 'paid' has had its tokens added to the
\* balance of an existing account of its user_id.
C1_PaidImpliesCredited ==
  \A o \in DOMAIN conn.orders :
    conn.orders[o].status = "paid" =>
      /\ conn.credited[o] >= 1
      /\ conn.orders[o].user_id \in DOMAIN conn.users

\* C2: whatever the check and the job do to an order, and however often they
\* call process_successful_payment, the account is credited for it at most
\* once.
C2_CreditedAtMostOnce ==
  \A o \in OrderIds : conn.credited[o] <= 1

\* C3: each account's balance is 100, plus the tokens of the user's paid
\* orders, minus COST_PER_REQUEST for each request whose debit took effect
\* and was not refunded.
C3_TokensConserved ==
  \A u \in DOMAIN conn.users :
    conn.users[u].tokens =
      DefaultTokens + PaidTokens(conn, u) - COST_PER_REQUEST * spent[u]

C5_TotalSpentIsPaidPrices ==
  \A u \in DOMAIN conn.users : conn.users[u].total_spent = EverPaidPrice(u)

\* C6: in the committed tables the effects of a settlement are all there or
\* none is: for an order with its payment row, a credit only with the order
\* 'paid', and the order 'paid' exactly when the payment row is 'completed'.
C6_SettlementAtomicOnDisk ==
  \A o \in DOMAIN disk.orders \cap DOMAIN disk.payments :
    /\ disk.credited[o] >= 1 => disk.orders[o].status = "paid"
    /\ disk.orders[o].status = "paid" <=> disk.payments[o].status = "completed"

\* C7: an order that is 'paid' stays 'paid' in every later step.
C7_PaidIsTerminal ==
  [][\A o \in DOMAIN conn.orders :
       conn.orders[o].status = "paid" => OrderStatus(conn', o) = "paid"]_vars

\* C8: an order that is 'failed' never becomes 'paid' and its user is never
\* credited for it.
C8_FailedIsTerminal ==
  [][\A o \in DOMAIN conn.orders :
       conn.orders[o].status = "failed" =>
         /\ OrderStatus(conn', o) # "paid"
         /\ conn'.credited[o] = conn.credited[o]]_vars

\* C9: a check of a 'created' order whose charge the provider reports
\* canceled sets the order and its payment row to 'failed'.
C9_CheckMarksFailed ==
  [][\A o \in OrderIds :
       (/\ last'.op = "check" /\ last'.order = o /\ last'.answer = "canceled"
        /\ OrderStatus(conn, o) = "created")
       => /\ OrderStatus(conn', o) = "failed"
          /\ o \in DOMAIN conn'.payments => conn'.payments[o].status = "failed"]_vars

\* C10: a check, or an iteration of the job, that gets 'pending' from the
\* provider changes no row of users, orders or payments, in the connection
\* or on disk.
C10_PendingChangesNothing ==
  [][(last'.op \in {"check", "sweep_order"} /\ last'.answer = "pending")
       => (conn' = conn /\ disk' = disk)]_vars

\* C10: a check has just got 'pending' for an order that is 'created'.
C10_Witness ==
  /\ last.op = "check"
  /\ last.answer = "pending"
  /\ OrderStatus(conn, last.order) = "created"

\* C11: a create_yookassa_payment whose pack is not in the catalog, or whose
\* Payment.create raised, changes no row in the connection or on disk, and
\* the order id it drew never appears in orders or payments, in the
\* connection or on disk.
C11_FailedCreates == {o \in 1 .. nextOrder : charge[o] = "none"}

C11_FailedCreateLeavesNothing ==
  /\ [][(last'.op = "create" /\ last'.answer \in {"no_pack", "raise"})
          => (conn' = conn /\ disk' = disk)]_vars
  /\ [](\A o \in C11_FailedCreates :
          /\ o \notin DOMAIN conn.orders \cup DOMAIN conn.payments
          /\ o \notin DOMAIN disk.orders \cup DOMAIN disk.payments)

\* C11: Payment.create raised for order 1, a second order was created and
\* committed after it, and an account exists.
C11_Witness ==
  /\ 1 \in C11_FailedCreates
  /\ 2 \in DOMAIN disk.orders
  /\ "u1" \in DOMAIN disk.users

\* C12: in the committed tables every order has its payment row, keyed by
\* the order's provider charge id, with the same user, tokens and price.
C12_OrderHasPaymentOnDisk ==
  \A o \in DOMAIN disk.orders :
    LET p == disk.orders[o].yookassa_payment_id
    IN /\ p \in DOMAIN disk.payments
       /\ disk.payments[p].user_id = disk.orders[o].user_id
       /\ disk.payments[p].tokens_added = disk.orders[o].tokens
       /\ disk.payments[p].amount = disk.orders[o].price

\* C13: a pass of the job ends only when it has visited every order it
\* selected, whatever raised on the way; and each visit that does not raise
\* itself, of an order that is 'created' and whose charge the provider
\* reports succeeded (canceled), sets the order to 'paid' ('failed').
C13_SweepGoesOnAfterError ==
  [][/\ (sweep.pc = "loop" /\ sweep'.pc = "idle") => sweep.seen = sweep.listed
     /\ \A o \in OrderIds :
          (/\ last'.op = "sweep_order" /\ last'.order = o
           /\ sweep'.seen # sweep.seen
           /\ o \notin sweep'.raised
           /\ OrderStatus(conn, o) = "created")
          => /\ last'.answer = "succeeded" => OrderStatus(conn', o) = "paid"
             /\ last'.answer = "canceled" => OrderStatus(conn', o) = "failed"]_vars

\* C13: in one pass the visit of order 1 raised, and the visit of order 2
\* after it set order 2 to 'paid'.
C13_Witness ==
  /\ sweep.listed = {1, 2}
  /\ sweep.raised = {1}
  /\ last.op = "sweep_order" /\ last.order = 2 /\ last.answer = "succeeded"
  /\ OrderStatus(conn, 2) = "paid"
  /\ OrderStatus(conn, 1) = "created"

\* C14: when a request whose debit took effect got no answer from any model
\* (every ollama.generate failed), the handler ends with the cost added back
\* to the balance.
C14_LlmFailureRefunds ==
  [][\A h \in Handlers :
       (/\ handlers[h].pc = "reply"
        /\ handlers[h].debited
        /\ ~handlers[h].answered
        /\ handlers'[h].pc = "idle")
       => conn'.users[handlers[h].user].tokens =
            conn.users[handlers[h].user].tokens + COST_PER_REQUEST]_vars

\* C15: a text message of a user whose balance is below COST_PER_REQUEST (or
\* who has no account) is rejected and changes no row and starts no request;
\* a request is started only with at least COST_PER_REQUEST; and with the
\* messages handled one after the other and no store error, the balance is
\* 100 less 10 per request that was not refunded and never below 0: after
\* ten such requests it is 0 and the eleventh is rejected.
C15_RejectedBelowCost ==
  /\ [][/\ (last'.op = "message" /\ last'.answer = "rejected")
            => (conn' = conn /\ disk' = disk /\ handlers' = handlers /\ spent' = spent)
         /\ \A h \in Handlers :
              (handlers[h].pc = "idle" /\ handlers'[h].pc = "typing")
              => /\ handlers'[h].user \in DOMAIN conn.users
                 /\ conn.users[handlers'[h].user].tokens >= COST_PER_REQUEST]_vars
  /\ [](storeErrs = 0 =>
          \A u \in DOMAIN conn.users :
            /\ conn.users[u].tokens = DefaultTokens - COST_PER_REQUEST * spent[u]
            /\ conn.users[u].tokens >= 0)

\* C15: u1's eleventh message has just been rejected after ten requests that
\* were paid for, with the balance 0.
C15_Witness ==
  /\ last.op = "message" /\ last.answer = "rejected" /\ last.user = "u1"
  /\ msgCount = 11
  /\ spent["u1"] = 10
  /\ storeErrs = 0
  /\ "u1" \in DOMAIN conn.users /\ conn.users["u1"].tokens = 0
  /\ disk = conn

\* C16: a check or a visit of the job that finds the charge of a 'created'
\* order succeeded, and in which no store call raises, adds the order's
\* tokens to the balance and its price to total_spent of the order's user,
\* sets the order to 'paid' and its payment row to 'completed', and changes
\* no other row of users, orders or payments.
C16_SettleEffect ==
  [][\A o \in OrderIds :
       (/\ last'.op \in {"check", "sweep_order"} /\ last'.order = o
        /\ last'.answer = "succeeded"
        /\ OrderStatus(conn, o) = "created"
        /\ storeErrs' = storeErrs)
       => LET u == conn.orders[o].user_id
          IN /\ u \in DOMAIN conn.users
             /\ o \in DOMAIN conn.payments
             /\ conn'.users = [conn.users EXCEPT ![u] =
                   [tokens |-> @.tokens + conn.orders[o].tokens,
                    total_spent |-> @.total_spent + conn.orders[o].price]]
             /\ conn'.orders = [conn.orders EXCEPT ![o].status = "paid"]
             /\ conn'.payments = [conn.payments EXCEPT ![o].status = "completed"]]_vars

\* C17: the purge that ends a pass of the job, when no store call raises,
\* deletes exactly the orders that are 'paid' or 'failed' and older than 7
\* days, and changes no row of payments or users.
C17_PurgeTerminalOld ==
  [][(sweep.pc = "loop" /\ sweep'.pc = "idle" /\ storeErrs' = storeErrs)
       => /\ conn'.orders =
               Remove(conn.orders,
                      {o \in DOMAIN conn.orders :
                         conn.orders[o].status \in {"paid", "failed"} /\ age[o] = 2})
          /\ conn'.payments = conn.payments
          /\ conn'.users = conn.users]_vars

\* C18: a committed row of users or of payments is in the committed tables
\* of every later state, also across a restart of the process.
C18_AccountsAndPaymentsKept ==
  [][/\ DOMAIN disk.users \subseteq DOMAIN disk'.users
     /\ DOMAIN disk.payments \subseteq DOMAIN disk'.payments]_vars

\* C19: a /start step (register_user) in which no store call raises leaves
\* tokens and total_spent of every existing account as they are, and the
\* account it creates has tokens = 100 and total_spent = 0; a second
\* register_user after it changes nothing.
C19_StartStep ==
  /\ last' = NoOp
  /\ storeErrs' = storeErrs
  /\ UNCHANGED <<nextOrder, charge, age, sweep, msgCount, handlers>>

C19_RegisterIdempotent ==
  [][C19_StartStep =>
       /\ \A u \in DOMAIN conn.users :
            u \in DOMAIN conn'.users /\ conn'.users[u] = conn.users[u]
       /\ \A u \in DOMAIN conn'.users \ DOMAIN conn.users :
            conn'.users[u] = [tokens |-> DefaultTokens, total_spent |-> 0]
       /\ \A u \in DOMAIN conn'.users :
            Exec(conn', InsertUser(u)) = conn']_vars

\* C19: /start of u2 has just created u2's account in the committed tables
\* next to u1's account, which has been credited (1100 tokens, 100 spent)
\* and is as it was.
C19_Witness ==
  /\ "u1" \in DOMAIN disk.users
  /\ disk.users["u1"] = [tokens |-> DefaultTokens + 1000, total_spent |-> 100]
  /\ "u2" \in DOMAIN disk.users
  /\ disk.users["u2"] = [tokens |-> DefaultTokens, total_spent |-> 0]
  /\ conn = disk
  /\ storeErrs = 0
  /\ last = NoOp

\* C20: when the send_message that follows a settlement raises, the
\* settlement stays as committed (the order 'paid', its payment row, where
\* create_yookassa_payment inserted one, 'completed', the credit on the
\* balance, in the connection and on disk);
\* the job goes on with the orders it has left, and the check tells the user
\* the payment is confirmed.
C20_Settled(d, o) ==
  /\ OrderStatus(d, o) = "paid"
  /\ o \in DOMAIN d.payments => d.payments[o].status = "completed"
  /\ d.credited[o] >= 1

C20_NotifyFailureKeepsSettlement ==
  [][/\ (last'.op = "sweep_notified" /\ last'.notify = "failed")
          => /\ conn' = conn /\ disk' = disk
             /\ C20_Settled(disk', last'.order)
             /\ sweep'.pc = "loop"
             /\ sweep'.pending = sweep.pending
             /\ sweep'.raised = sweep.raised
     /\ (last'.op = "check" /\ last'.notify = "failed")
          => /\ C20_Settled(conn', last'.order) /\ C20_Settled(disk', last'.order)
             /\ conn'.users[conn.orders[last'.order].user_id].tokens =
                  conn.users[conn.orders[last'.order].user_id].tokens
                    + conn.orders[last'.order].tokens
             /\ last'.result = "success"]_vars

\* C20: the job's notification for order 1 has just failed with order 2
\* still to visit.
C20_Witness ==
  /\ last.op = "sweep_notified" /\ last.notify = "failed" /\ last.order = 1
  /\ sweep.pc = "loop"
  /\ sweep.pending = <<2>>
  /\ C20_Settled(disk, 1)
  /\ 1 \in DOMAIN disk.payments

\* C21: with the job running for ever, no order stays 'created' for ever
\* with its charge pending once it is older than a day.
C21_StalePendingFails ==
  \A o \in OrderIds :
    []<>~(OrderStatus(conn, o) = "created" /\ charge[o] = "pending" /\ age[o] >= 1)

\* C23: with the job running for ever and the provider answering, no order
\* stays 'created' for ever with its charge succeeded, whatever the order's
\* age when the charge succeeded.
C23_SucceededEventuallyPaid ==
  \A o \in OrderIds :
    []<>~(OrderStatus(conn, o) = "created" /\ charge[o] = "succeeded")

\* C22: as the connection sees the tables, the payment row of every order
\* mirrors the order's status: 'pending' for 'created', 'completed' for
\* 'paid', 'failed' for 'failed'.
C22_Mirror(status) ==
  IF status = "created" THEN "pending"
  ELSE IF status = "paid" THEN "completed"
  ELSE status

C22_PaymentMirrorsOrder ==
  \A o \in DOMAIN conn.orders :
    LET p == conn.orders[o].yookassa_payment_id
    IN p \in DOMAIN conn.payments =>
         conn.payments[p].status = C22_Mirror(conn.orders[o].status)

\* C24: the user_id of every order and of every payment row is the user_id
\* of a row of users.
C24_OrdersNameAccounts ==
  /\ \A o \in DOMAIN conn.orders : conn.orders[o].user_id \in DOMAIN conn.users
  /\ \A p \in DOMAIN conn.payments : conn.payments[p].user_id \in DOMAIN conn.users

\* C25: what one handled message does to its user's balance: the step from
\* the typing action on (the debit and, when it raised, the refund of the
\* except branch) takes COST_PER_REQUEST or nothing, and the step that ends
\* the handler after the reply gives back COST_PER_REQUEST only when the
\* message's debit had taken effect, so that the message's net change is
\* -COST_PER_REQUEST or 0.
C25_Delta(u) ==
  IF u \in DOMAIN conn.users /\ u \in DOMAIN conn'.users
  THEN conn'.users[u].tokens - conn.users[u].tokens ELSE 0

C25_NetChangeNeverPositive ==
  [][\A h \in Handlers :
       /\ (handlers[h].pc = "typing" /\ handlers'[h].pc = "reply")
            => C25_Delta(handlers[h].user) = 0 - COST_PER_REQUEST
       /\ (handlers[h].pc = "typing" /\ handlers'[h].pc = "idle")
            => C25_Delta(handlers[h].user) \in {0 - COST_PER_REQUEST, 0}
       /\ (handlers[h].pc = "reply" /\ handlers'[h].pc = "idle")
            => C25_Delta(handlers[h].user) \in
                 (IF handlers[h].debited THEN {0, COST_PER_REQUEST} ELSE {0})]_vars

\* C26: pressing 'cancel order' changes no row of orders, payments or users
\* and nothing at the provider; and a check or a visit of the job that
\* afterwards finds the charge of the cancelled order succeeded, the order
\* being 'created', sets it to 'paid', its payment row to 'completed', and
\* adds the order's tokens to the balance of the buyer's account.
C26_CancelChangesNothing ==
  [][\A o \in DOMAIN issued :
       /\ (issued'[o].cancelled /\ ~issued[o].cancelled)
            => (conn' = conn /\ disk' = disk /\ charge' = charge)
       /\ (/\ issued[o].cancelled
           /\ last'.op \in {"check", "sweep_order"} /\ last'.order = o
           /\ last'.answer = "succeeded"
           /\ OrderStatus(conn, o) = "created")
            => /\ OrderStatus(conn', o) = "paid"
               /\ o \in DOMAIN conn'.payments => conn'.payments[o].status = "completed"
               /\ \A u \in DOMAIN conn.users :
                    u = conn.orders[o].user_id =>
                      conn'.users[u].tokens = conn.users[u].tokens + conn.orders[o].tokens]_vars

\* C26: order 1 was cancelled by its button and is now 'paid', with its
\* tokens on the buyer's balance.
C26_Witness ==
  /\ 1 \in DOMAIN issued /\ issued[1].cancelled
  /\ OrderStatus(disk, 1) = "paid"
  /\ disk.credited[1] = 1
  /\ "u1" \in DOMAIN disk.users /\ disk.users["u1"].tokens = DefaultTokens + 1000
====
